---- MODULE Spec2Model ----
(***************************************************************************)
(* PMI deal simulation (src/app/page.tsx): the five-gate decision engine   *)
(* (applyDecision, applyPresentationGrade, computeRobustnessIndex) and the *)
(* Page component's state machine (selectOption, grade select, proceed,    *)
(* cancel, reset).                                                         *)
(*                                                                         *)
(* Numbers.  The program computes in JavaScript doubles; the model         *)
(* computes the same decimal quantities exactly, as integers in fixed      *)
(* units:                                                                  *)
(*   share            in 1/1000           (ShareUnit)                      *)
(*   attrition        in 1/100            (AttrUnit)                       *)
(*   feasibility      in 1/200000         (FeasUnit = 2000 * 100)          *)
(*   synergy          in 1/5000000        (SynUnit  = 25 * FeasUnit)       *)
(*   cred, risk, capacity, synergyCeiling: whole numbers                   *)
(*   robustness score before rounding in 1/100                             *)
(* Every quantity the program produces from the catalog is a whole number  *)
(* of these units, except the two multiplicative synergy losses (leakage,  *)
(* erosion), which are truncated to a whole synergy unit.                  *)
(*                                                                         *)
(* null / undefined / an optional field that is absent is the empty        *)
(* sequence << >>; a present value v is << v >>.                           *)
(*                                                                         *)
(* User events.  Each action is one user event on a control of the page.   *)
(* When the control is enabled its handler runs; when it is disabled or    *)
(* not rendered no handler runs and the page state is left as it is.       *)
(* lastEvent records the last event and whether its handler ran.           *)
(*                                                                         *)
(* Locals.  With(v, LAMBDA x : e) is a JavaScript local (const x = v; e):  *)
(* v is evaluated once.                                                    *)
(***************************************************************************)
EXTENDS Integers, Sequences, FiniteSets, TLC

VARIABLES state, gateIndex, draft, history, grade, lastEvent, probe, result

vars == <<state, gateIndex, draft, history, grade, lastEvent, probe, result>>

pageVars == <<state, gateIndex, draft, history, grade>>

\* ---------------------------------------------------------------- units
ShareUnit == 1000

AttrUnit == 100

FeasUnit == 200000

SynUnit == 5000000

Null == << >>

Some(v) == << v >>

\* ---------------------------------------------------------------- bounds
\* number of the six presentation grades the participant is offered in the
\* explored runs (taken in the order of GradeOrder)
NumGrades == 1

\* number of equal steps in which the attrition range [2,12] is sampled when
\* computeFeasibility is explored
AttrSteps == 40

GradeOrder == << 1, 6, 3, 4, 2, 5 >>

GradeChoices == { GradeOrder[i] : i \in 1..(IF NumGrades < 6 THEN NumGrades ELSE 6) }

\* the grades of the <select> element
AllGrades == 1..6

\* numbers that are not grades of the <select> element: applyPresentationGrade
\* takes any number
InvalidGrades == {0, 7}

\* ---------------------------------------------------------------- helpers
Max(a, b) == IF a >= b THEN a ELSE b

Min(a, b) == IF a <= b THEN a ELSE b

\* clamp(min, v, max) = Math.max(min, Math.min(max, v))
clamp(min, v, max) == Max(min, Min(max, v))

\* floor(x * n / d) without overflowing 32-bit integers (x >= 0, n >= 0, d > 0)
MulDiv(x, n, d) == (x \div d) * n + ((x % d) * n) \div d

\* Math.round(n / d): nearest integer, halves towards +infinity
MathRound(n, d) == (2 * n + d) \div (2 * d)

\* F(v) with v evaluated once (a JavaScript local: const x = v; ... F(x))
With(v, F(_)) == CHOOSE r \in { F(x) : x \in {v} } : TRUE

FlagNames == {"hardIntegration", "fragileTalent", "itDebt", "dg4_fullDelivery",
              "dg4_credReset", "dg4_strategicPrioritization", "dg4_stabilityFirst"}

NoFlags == [f \in {} |-> TRUE]

deepCopyState(s) == s

\* ---------------------------------------------------------------- robustness index
scoreShare(share) ==
  IF share >= 128 * ShareUnit THEN 100
  ELSE IF share >= 120 * ShareUnit THEN 90
  ELSE IF share >= 110 * ShareUnit THEN 75
  ELSE IF share >= 100 * ShareUnit THEN 60
  ELSE IF share >= 90 * ShareUnit THEN 45
  ELSE 30

scoreSynergy_strictThresholds(syn) ==
  IF syn > 35 * SynUnit THEN 100
  ELSE IF syn > 30 * SynUnit THEN 90
  ELSE IF syn > 25 * SynUnit THEN 75
  ELSE IF syn > 20 * SynUnit THEN 60
  ELSE IF syn > 15 * SynUnit THEN 45
  ELSE 30

scoreSynergy(syn) ==
  IF syn >= 35 * SynUnit THEN 100
  ELSE IF syn >= 30 * SynUnit THEN 90
  ELSE IF syn >= 25 * SynUnit THEN 75
  ELSE IF syn >= 20 * SynUnit THEN 60
  ELSE IF syn >= 15 * SynUnit THEN 45
  ELSE 30

scoreAttrition(attr) ==
  IF attr <= 250 THEN 100
  ELSE IF attr <= 350 THEN 90
  ELSE IF attr <= 500 THEN 75
  ELSE IF attr <= 700 THEN 60
  ELSE IF attr <= 900 THEN 45
  ELSE 30

\* the score before the hard caps, in 1/100
rawScore(s) ==
  LET base == scoreShare(s.share) * 45 + scoreSynergy(s.synergy) * 35
              + scoreAttrition(s.attrition) * 20
      credPenalty == Max(0, 70 - s.cred) * 35
      riskPenalty == Max(0, s.risk - 60) * 55 + Max(0, s.risk - 80) * 65
      capPenalty == Max(0, 55 - s.capacity) * 45 + Max(0, 40 - s.capacity) * 70
      overloadPenalty ==
        IF s.risk >= 85 /\ s.capacity <= 35 THEN 1000
        ELSE IF s.risk >= 80 /\ s.capacity <= 40 THEN 600
        ELSE 0
  IN  base - credPenalty - riskPenalty - capPenalty - overloadPenalty

\* the three hard caps, applied in order to a score in 1/100
hardCaps_noCapacityCap(s, score) ==
  LET c1 == IF s.risk >= 85 THEN Min(score, 7500) ELSE score
  IN  IF s.risk >= 85 /\ s.capacity <= 30 THEN Min(c1, 6500) ELSE c1

hardCaps(s, score) ==
  LET c1 == IF s.risk >= 85 THEN Min(score, 7500) ELSE score
      c2 == IF s.capacity <= 30 THEN Min(c1, 7800) ELSE c1
  IN  IF s.risk >= 85 /\ s.capacity <= 30 THEN Min(c2, 6500) ELSE c2

computeRobustnessIndex_itDebtPenalty(s) ==
  MathRound(clamp(0, hardCaps(s, rawScore(s) - (IF s.flags["itDebt"] THEN 500 ELSE 0)),
                  100 * 100), 100)

computeRobustnessIndex(s) ==
  MathRound(clamp(0, hardCaps(s, rawScore(s)), 100 * 100), 100)

\* ---------------------------------------------------------------- grade model
gradeToScore_neutralAtThree(g) == clamp(-5, 6 - 2 * g, 5)

\* gradeToScore in fifths: (3.5 - grade) / 2.5 = (7 - 2 grade) / 5
gradeToScore(g) == clamp(-5, 7 - 2 * g, 5)

\* the three deltas of applyPresentationGrade: share in 1/1000, synergy in
\* synergy units, attrition in 1/100
gradeDeltas(g, feasibility) ==
  LET score == gradeToScore(g)
  IN  [dShare |-> 440 * score,
       dSynergy |-> 6 * score * feasibility,
       dAttr |-> -5 * score]

applyPresentationGrade_noAttrClamp(nextIn, g, feasibility) ==
  LET s == deepCopyState(nextIn)
      d == gradeDeltas(g, feasibility)
  IN  [next |-> [s EXCEPT
         !.share = clamp(70 * ShareUnit, s.share + d.dShare, 130 * ShareUnit),
         !.synergy = clamp(0, s.synergy + d.dSynergy, s.synergyCeiling * SynUnit),
         !.attrition = s.attrition + d.dAttr],
       deltas |-> d]

applyPresentationGrade_touchesCred(nextIn, g, feasibility) ==
  LET s == deepCopyState(nextIn)
      d == gradeDeltas(g, feasibility)
  IN  [next |-> [s EXCEPT
         !.share = clamp(70 * ShareUnit, s.share + d.dShare, 130 * ShareUnit),
         !.synergy = clamp(0, s.synergy + d.dSynergy, s.synergyCeiling * SynUnit),
         !.attrition = clamp(2 * AttrUnit, s.attrition + d.dAttr, 12 * AttrUnit),
         !.cred = clamp(0, s.cred + gradeToScore(g), 100)],
       deltas |-> d]

applyPresentationGrade(nextIn, g, feasibility) ==
  LET s == deepCopyState(nextIn)
      d == gradeDeltas(g, feasibility)
  IN  [next |-> [s EXCEPT
         !.share = clamp(70 * ShareUnit, s.share + d.dShare, 130 * ShareUnit),
         !.synergy = clamp(0, s.synergy + d.dSynergy, s.synergyCeiling * SynUnit),
         !.attrition = clamp(2 * AttrUnit, s.attrition + d.dAttr, 12 * AttrUnit)],
       deltas |-> d]

\* ---------------------------------------------------------------- model
initialState ==
  [share |-> 100 * ShareUnit,
   synergy |-> 0,
   attrition |-> 4 * AttrUnit,
   cred |-> 55,
   risk |-> 45,
   capacity |-> 70,
   synergyCeiling |-> 100,
   flags |-> [f \in FlagNames |-> FALSE]]

\* an OptionDef; dAttrition in 1/100, dg4GuidanceShock in 1/1000
Opt(id, baseSynergy, dAttrition, dRisk, dCred, dCapacity, dg4Ceiling, dg4GuidanceShock, setFlags) ==
  [id |-> id, baseSynergy |-> baseSynergy, dAttrition |-> dAttrition, dRisk |-> dRisk,
   dCred |-> dCred, dCapacity |-> dCapacity, dg4Ceiling |-> dg4Ceiling,
   dg4GuidanceShock |-> dg4GuidanceShock, setFlags |-> setFlags]

gates ==
  << [id |-> "DG1", options |-> <<
        Opt("A", 16, 100, 10, 6, -10, Null, Null, [hardIntegration |-> TRUE]),
        Opt("B", 12, 50, 5, 4, -7, Null, Null, NoFlags),
        Opt("C", 9, -20, 3, 2, -5, Null, Null, NoFlags),
        Opt("D", 6, -40, 1, -1, -3, Null, Null, NoFlags) >>],
     [id |-> "DG2", options |-> <<
        Opt("A", 6, -120, -3, 1, -4, Null, Null, [fragileTalent |-> FALSE]),
        Opt("B", 10, 100, 5, 4, -6, Null, Null, NoFlags),
        Opt("C", 8, 30, 3, 2, -5, Null, Null, NoFlags),
        Opt("D", 12, 200, 8, 3, -8, Null, Null, [fragileTalent |-> TRUE]) >>],
     [id |-> "DG3", options |-> <<
        Opt("A", 15, 50, 12, 6, -14, Null, Null, NoFlags),
        Opt("B", 11, 20, 6, 4, -8, Null, Null, NoFlags),
        Opt("C", 8, 10, 3, 3, -6, Null, Null, [itDebt |-> TRUE]),
        Opt("D", 4, 0, -2, -4, -2, Null, Null, NoFlags) >>],
     [id |-> "DG4", options |-> <<
        Opt("A", 16, 150, 14, 5, -14, Some(100), Some(0), [dg4_fullDelivery |-> TRUE]),
        Opt("B", 8, -60, -10, -5, 6, Some(90), Some(-4000), [dg4_credReset |-> TRUE]),
        Opt("C", 12, 40, 4, 3, -5, Some(95), Some(-1000), [dg4_strategicPrioritization |-> TRUE]),
        Opt("D", 6, -100, -12, -8, 10, Some(80), Some(-6000), [dg4_stabilityFirst |-> TRUE]) >>],
     [id |-> "DG5", options |-> <<
        Opt("A", 10, 60, 4, 4, -8, Null, Null, NoFlags),
        Opt("B", 6, -40, -8, -1, 4, Null, Null, NoFlags),
        Opt("C", 8, 0, -4, 2, 2, Null, Null, NoFlags),
        Opt("D", 7, 30, -2, -3, -1, Null, Null, NoFlags) >>] >>

computeFeasibility_noCapacityFloor(attrition, capacity) ==
  LET f1 == clamp(1200, 2000 - attrition, 2000)
      f2 == clamp(0, capacity, 100)
  IN  f1 * f2

\* feasibility in 1/200000: f1 in 1/2000 times f2 in 1/100
computeFeasibility(attrition, capacity) ==
  LET f1 == clamp(1200, 2000 - attrition, 2000)
      f2 == clamp(70, capacity, 100)
  IN  f1 * f2

\* ---------------------------------------------------------------- narrative
\* the market interpretation as the list of the clauses it is built from
marketNote(gateId, o, next) ==
  IF gateId = "DG4" /\ o.id \in {"A", "B", "C", "D"}
  THEN << "DG4", o.id >>
  ELSE
    LET p1 == IF o.dCred >= 4 THEN << "rewards credible narrative" >>
              ELSE IF o.dCred <= -3 THEN << "questions strategic direction" >>
              ELSE << >>
        p2 == IF o.dRisk >= 8 THEN << "penalizes execution risk" >>
              ELSE IF o.dRisk <= -6 THEN << "values risk reduction" >>
              ELSE << >>
        p3 == IF o.dAttrition >= 120 THEN << "talent instability" >>
              ELSE IF o.dAttrition <= -60 THEN << "improved retention" >>
              ELSE << >>
        p4 == IF next.risk >= 85 \/ next.capacity <= 30 THEN << "systemic overload" >>
              ELSE << >>
        parts == p1 \o p2 \o p3 \o p4
    IN  IF Len(parts) = 0 THEN << "muted" >> ELSE parts

\* ---------------------------------------------------------------- applyDecision
clampShare(v) == clamp(70 * ShareUnit, v, 130 * ShareUnit)

clampAttrition(v) == clamp(2 * AttrUnit, v, 12 * AttrUnit)

clampSynergy(v, ceiling) == clamp(0, v, ceiling * SynUnit)

\* 1) immediate updates
ImmediateUpdates(s, option) ==
  [s EXCEPT !.cred = clamp(0, s.cred + option.dCred, 100),
            !.risk = clamp(0, s.risk + option.dRisk, 100),
            !.capacity = clamp(0, s.capacity + option.dCapacity, 100),
            !.attrition = clampAttrition(s.attrition + option.dAttrition)]

MergeFlags_replacesFlags(s, option) ==
  [s EXCEPT !.flags = [f \in FlagNames |->
     IF f \in DOMAIN option.setFlags THEN option.setFlags[f] ELSE FALSE]]

\* 2) flags: { ...s.flags, ...option.setFlags }
MergeFlags(s, option) ==
  [s EXCEPT !.flags = [f \in FlagNames |->
     IF f \in DOMAIN option.setFlags THEN option.setFlags[f] ELSE s.flags[f]]]

\* 3) DG4 ceiling
Dg4Ceiling(s, gate, option) ==
  IF gate.id = "DG4" /\ option.dg4Ceiling # Null
  THEN [s EXCEPT !.synergyCeiling = clamp(60, option.dg4Ceiling[1], 100)]
  ELSE s

SynergyUpdate_tenfoldBase(s, option, feasibility) ==
  [s EXCEPT !.synergy =
     clampSynergy(s.synergy + 10 * option.baseSynergy * feasibility * (SynUnit \div FeasUnit),
                  s.synergyCeiling)]

\* 4) synergy update: synergy + baseSynergy * feasibility
SynergyUpdate(s, option, feasibility) ==
  [s EXCEPT !.synergy =
     clampSynergy(s.synergy + option.baseSynergy * feasibility * (SynUnit \div FeasUnit),
                  s.synergyCeiling)]

overloadSignals(s) ==
  (IF s.risk > 85 THEN 1 ELSE 0) + (IF s.capacity < 30 THEN 1 ELSE 0)
  + (IF s.attrition > 9 * AttrUnit THEN 1 ELSE 0)

SynergyLeakage_bothMultipliers(s) ==
  With(IF overloadSignals(s) >= 2
       THEN [s EXCEPT !.synergy = clampSynergy(MulDiv(s.synergy, 94, 100), s.synergyCeiling)]
       ELSE s, LAMBDA a :
  IF overloadSignals(s) = 3
  THEN [a EXCEPT !.synergy = clampSynergy(MulDiv(a.synergy, 90, 100), a.synergyCeiling)]
  ELSE a)

\* 4b) synergy leakage under systemic stress
SynergyLeakage(s) ==
  With(IF overloadSignals(s) = 2
       THEN [s EXCEPT !.synergy = clampSynergy(MulDiv(s.synergy, 94, 100), s.synergyCeiling)]
       ELSE s, LAMBDA a :
  IF overloadSignals(s) = 3
  THEN [a EXCEPT !.synergy = clampSynergy(MulDiv(a.synergy, 90, 100), a.synergyCeiling)]
  ELSE a)

shareDelta_riskRewarded(option) ==
  350 * option.baseSynergy + 100 * option.dCred + 120 * option.dRisk
  - (180 * option.dAttrition) \div AttrUnit

\* 5) share update (base): 0.35 baseSynergy + 0.10 dCred - 0.12 dRisk - 0.18 dAttrition
shareDelta(option) ==
  350 * option.baseSynergy + 100 * option.dCred - 120 * option.dRisk
  - (180 * option.dAttrition) \div AttrUnit

ShareUpdate_unclamped(s, option) ==
  [s EXCEPT !.share = s.share + shareDelta(option)]

ShareUpdate(s, option) ==
  [s EXCEPT !.share = clampShare(s.share + shareDelta(option))]

\* 6) DG4 guidance shock
GuidanceShock(s, gate, option) ==
  IF gate.id = "DG4" /\ option.dg4GuidanceShock # Null /\ option.dg4GuidanceShock # Some(0)
  THEN [s EXCEPT !.share = clampShare(s.share + option.dg4GuidanceShock[1])]
  ELSE s

DelayedEffects_keyedOnUpdated(prev, s0, gate, option) ==
  With(IF s0.flags["itDebt"] /\ gate.id \in {"DG4", "DG5"} /\ option.baseSynergy >= 10
       THEN [s0 EXCEPT !.risk = clamp(0, s0.risk + 6, 100),
                       !.capacity = clamp(0, s0.capacity - 6, 100)]
       ELSE s0, LAMBDA s1 :
  With(IF s1.flags["fragileTalent"] /\ gate.id = "DG4" /\ option.id \in {"A", "C"}
       THEN [s1 EXCEPT !.attrition = clampAttrition(s1.attrition + 1 * AttrUnit)]
       ELSE s1, LAMBDA s2 :
  With(IF gate.id = "DG5" /\ option.id = "A"
          /\ s2.flags["dg4_fullDelivery"] /\ s2.risk > 70
       THEN [s2 EXCEPT !.risk = clamp(0, s2.risk + 8, 100),
                       !.cred = clamp(0, s2.cred - 4, 100),
                       !.attrition = clampAttrition(s2.attrition + 80)]
       ELSE s2, LAMBDA s3 :
  With(IF gate.id = "DG5" /\ option.id = "A" /\ s3.flags["hardIntegration"]
       THEN [s3 EXCEPT !.risk = clamp(0, s3.risk + 5, 100),
                       !.cred = clamp(0, s3.cred - 2, 100)]
       ELSE s3, LAMBDA s4 :
  With(IF gate.id = "DG5" /\ option.id \in {"B", "C"} /\ prev.flags["dg4_credReset"]
       THEN [s4 EXCEPT !.cred = clamp(0, s4.cred + 3, 100),
                       !.share = clampShare(s4.share + 1200)]
       ELSE s4, LAMBDA s5 :
  With(IF gate.id = "DG5" /\ option.id = "A" /\ prev.flags["dg4_stabilityFirst"]
       THEN [s5 EXCEPT !.cred = clamp(0, s5.cred - 4, 100),
                       !.share = clampShare(s5.share - 1500)]
       ELSE s5, LAMBDA s6 :
  IF gate.id = "DG5" /\ option.id = "B" /\ s6.synergy < 35 * SynUnit
  THEN [s6 EXCEPT !.cred = clamp(0, s6.cred - 3, 100)]
  ELSE s6))))))

\* 7) delayed effects
DelayedEffects(prev, s0, gate, option) ==
  With(IF s0.flags["itDebt"] /\ gate.id \in {"DG4", "DG5"} /\ option.baseSynergy >= 10
       THEN [s0 EXCEPT !.risk = clamp(0, s0.risk + 6, 100),
                       !.capacity = clamp(0, s0.capacity - 6, 100)]
       ELSE s0, LAMBDA s1 :
  With(IF s1.flags["fragileTalent"] /\ gate.id = "DG4" /\ option.id \in {"A", "C"}
       THEN [s1 EXCEPT !.attrition = clampAttrition(s1.attrition + 1 * AttrUnit)]
       ELSE s1, LAMBDA s2 :
  With(IF gate.id = "DG5" /\ option.id = "A"
          /\ prev.flags["dg4_fullDelivery"] /\ prev.risk > 70
       THEN [s2 EXCEPT !.risk = clamp(0, s2.risk + 8, 100),
                       !.cred = clamp(0, s2.cred - 4, 100),
                       !.attrition = clampAttrition(s2.attrition + 80)]
       ELSE s2, LAMBDA s3 :
  With(IF gate.id = "DG5" /\ option.id = "A" /\ prev.flags["hardIntegration"]
       THEN [s3 EXCEPT !.risk = clamp(0, s3.risk + 5, 100),
                       !.cred = clamp(0, s3.cred - 2, 100)]
       ELSE s3, LAMBDA s4 :
  With(IF gate.id = "DG5" /\ option.id \in {"B", "C"} /\ prev.flags["dg4_credReset"]
       THEN [s4 EXCEPT !.cred = clamp(0, s4.cred + 3, 100),
                       !.share = clampShare(s4.share + 1200)]
       ELSE s4, LAMBDA s5 :
  With(IF gate.id = "DG5" /\ option.id = "A" /\ prev.flags["dg4_stabilityFirst"]
       THEN [s5 EXCEPT !.cred = clamp(0, s5.cred - 4, 100),
                       !.share = clampShare(s5.share - 1500)]
       ELSE s5, LAMBDA s6 :
  IF gate.id = "DG5" /\ option.id = "B" /\ s6.synergy < 35 * SynUnit
  THEN [s6 EXCEPT !.cred = clamp(0, s6.cred - 3, 100)]
  ELSE s6))))))

\* systemic stress engine: the share penalty in 1/1000
stressPenalty(s) ==
  LET r1 == IF s.risk > 75 THEN (s.risk - 75) * 150 ELSE 0
      r2 == IF s.risk > 85 THEN (s.risk - 85) * 350 ELSE 0
      r3 == IF s.risk > 92 THEN (s.risk - 92) * 750 ELSE 0
      c1 == IF s.capacity < 40 THEN (40 - s.capacity) * 200 ELSE 0
      c2 == IF s.capacity < 30 THEN (30 - s.capacity) * 400 ELSE 0
      sum == r1 + r2 + r3 + c1 + c2
  IN  IF s.risk > 85 /\ s.capacity < 35 THEN (sum * 3) \div 2 ELSE sum

StressEngine(s) ==
  IF stressPenalty(s) > 0
  THEN [s EXCEPT !.share = clampShare(s.share - stressPenalty(s))]
  ELSE s

CredHit_readsShare(s) ==
  IF s.risk > 85 /\ s.capacity < 35
  THEN LET credHit == 4 + MathRound((s.risk - 85) * 3, 10) + MathRound((35 - s.capacity) * 2, 10)
                      + (IF s.share < 100 * ShareUnit THEN 2 ELSE 0)
       IN  [s EXCEPT !.cred = clamp(0, s.cred - credHit, 100)]
  ELSE s

\* immediate credibility hit when the system is overstretched
CredHit(s) ==
  IF s.risk > 85 /\ s.capacity < 35
  THEN LET credHit == 4 + MathRound((s.risk - 85) * 3, 10) + MathRound((35 - s.capacity) * 2, 10)
       IN  [s EXCEPT !.cred = clamp(0, s.cred - credHit, 100)]
  ELSE s

\* synergy erosion under collapse: synergy * (1 - (0.05 + (risk - 85) * 0.002))
SynergyErosion(s) ==
  IF s.risk > 85 /\ s.capacity < 35
  THEN [s EXCEPT !.synergy =
          clampSynergy(MulDiv(s.synergy, 950 - 2 * (s.risk - 85), 1000), s.synergyCeiling)]
  ELSE s

FinalClamp_ceilingFromSynergy(s) ==
  [s EXCEPT !.share = clampShare(s.share),
            !.synergy = clampSynergy(s.synergy, s.synergyCeiling),
            !.attrition = clampAttrition(s.attrition),
            !.cred = clamp(0, s.cred, 100),
            !.risk = clamp(0, s.risk, 100),
            !.capacity = clamp(0, s.capacity, 100),
            !.synergyCeiling = clamp(60, clampSynergy(s.synergy, s.synergyCeiling) \div SynUnit, 100)]

\* final clamp
FinalClamp(s) ==
  [s EXCEPT !.share = clampShare(s.share),
            !.synergy = clampSynergy(s.synergy, s.synergyCeiling),
            !.attrition = clampAttrition(s.attrition),
            !.cred = clamp(0, s.cred, 100),
            !.risk = clamp(0, s.risk, 100),
            !.capacity = clamp(0, s.capacity, 100),
            !.synergyCeiling = clamp(60, s.synergyCeiling, 100)]

applyDecision(prev, gate, option) ==
  With(ImmediateUpdates(deepCopyState(prev), option), LAMBDA s1 :
  With(MergeFlags(s1, option), LAMBDA s2 :
  With(Dg4Ceiling(s2, gate, option), LAMBDA s3 :
  With(computeFeasibility(s3.attrition, s3.capacity), LAMBDA feasibility :
  With(SynergyUpdate(s3, option, feasibility), LAMBDA s4 :
  With(SynergyLeakage(s4), LAMBDA s4b :
  With(ShareUpdate(s4b, option), LAMBDA s5 :
  With(GuidanceShock(s5, gate, option), LAMBDA s6 :
  With(DelayedEffects(prev, s6, gate, option), LAMBDA s7 :
  With(StressEngine(s7), LAMBDA s8 :
  With(CredHit(s8), LAMBDA s9 :
  With(SynergyErosion(s9), LAMBDA s10 :
  With(FinalClamp(s10), LAMBDA s :
    [next |-> s, feasibility |-> feasibility,
     note |-> marketNote(gate.id, option, s)])))))))))))))

\* the state applyDecision holds right before its final clamp (steps 1 to the
\* synergy erosion)
beforeFinalClamp(prev, gate, option) ==
  With(ImmediateUpdates(deepCopyState(prev), option), LAMBDA s1 :
  With(MergeFlags(s1, option), LAMBDA s2 :
  With(Dg4Ceiling(s2, gate, option), LAMBDA s3 :
  With(computeFeasibility(s3.attrition, s3.capacity), LAMBDA feasibility :
  With(SynergyUpdate(s3, option, feasibility), LAMBDA s4 :
  With(SynergyLeakage(s4), LAMBDA s4b :
  With(ShareUpdate(s4b, option), LAMBDA s5 :
  With(GuidanceShock(s5, gate, option), LAMBDA s6 :
  With(DelayedEffects(prev, s6, gate, option), LAMBDA s7 :
  With(StressEngine(s7), LAMBDA s8 :
  With(CredHit(s8), LAMBDA s9 :
    SynergyErosion(s9))))))))))))

\* ---------------------------------------------------------------- Page
NumGates == Len(gates)

\* gates[gateIndex] (the source indexes from 0)
currentGate == gates[gateIndex + 1]

isFinal == gateIndex >= Len(gates)

optionsOf(g) == { g.options[i] : i \in 1..Len(g.options) }

fieldDeltas(prev, next) ==
  [share |-> next.share - prev.share,
   synergy |-> next.synergy - prev.synergy,
   attrition |-> next.attrition - prev.attrition,
   cred |-> next.cred - prev.cred,
   risk |-> next.risk - prev.risk,
   capacity |-> next.capacity - prev.capacity,
   synergyCeiling |-> next.synergyCeiling - prev.synergyCeiling]

\* the HistoryEntry that selectOption builds (no grade yet)
draftEntry(s, g, o) ==
  With(deepCopyState(s), LAMBDA prev :
  With(applyDecision(prev, g, o), LAMBDA r :
    [gate |-> g.id,
     choice |-> [gate |-> g.id, option |-> o.id],
     grade |-> Null,
     prev |-> prev,
     next |-> r.next,
     deltas |-> fieldDeltas(prev, r.next),
     feasibility |-> r.feasibility,
     note |-> [text |-> r.note, gradeText |-> Null]]))

selectOption_commitsAtOnce(g, o) ==
  /\ grade' = Null
  /\ draft' = Some(draftEntry(state, g, o))
  /\ state' = draftEntry(state, g, o).next
  /\ UNCHANGED <<gateIndex, history>>

selectOption(g, o) ==
  /\ grade' = Null
  /\ draft' = Some(draftEntry(state, g, o))
  /\ UNCHANGED <<state, gateIndex, history>>

\* the suffix " (Presentation grade g: +x.x share, +x.x synergy, -x.xx pp attrition)":
\* signs and toFixed(1) / toFixed(2) magnitudes (tenths, tenths, hundredths)
gradeText(g, d) ==
  LET abs(x) == IF x < 0 THEN -x ELSE x
  IN  [grade |-> g,
       shareSign |-> IF d.dShare >= 0 THEN "+" ELSE "-",
       share |-> MathRound(abs(d.dShare) * 10, ShareUnit),
       synergySign |-> IF d.dSynergy >= 0 THEN "+" ELSE "-",
       synergy |-> MathRound(abs(d.dSynergy), SynUnit \div 10),
       attrSign |-> IF d.dAttr <= 0 THEN "-" ELSE "+",
       attr |-> abs(d.dAttr)]

gradedEntry_staleDeltas(d, g) ==
  With(applyPresentationGrade(d.next, g, d.feasibility), LAMBDA graded :
    [d EXCEPT !.grade = Some(g),
              !.next = graded.next,
              !.note = [text |-> d.note.text,
                        gradeText |-> Some(gradeText(g, graded.deltas))]])

\* the draft with the grade impact applied to draft.next (share/synergy/attrition only)
gradedEntry(d, g) ==
  With(applyPresentationGrade(d.next, g, d.feasibility), LAMBDA graded :
    [d EXCEPT !.grade = Some(g),
              !.next = graded.next,
              !.deltas = fieldDeltas(d.prev, graded.next),
              !.note = [text |-> d.note.text,
                        gradeText |-> Some(gradeText(g, graded.deltas))]])

effectiveDraft ==
  IF draft = Null THEN Null
  ELSE IF grade = Null THEN draft
  ELSE Some(gradedEntry(draft[1], grade[1]))

proceed_skipsGate ==
  IF effectiveDraft = Null
  THEN UNCHANGED pageVars
  ELSE /\ history' = Append(history, effectiveDraft[1])
       /\ state' = effectiveDraft[1].next
       /\ draft' = Null
       /\ grade' = Null
       /\ gateIndex' = gateIndex + 2

proceed_noAdvance ==
  IF effectiveDraft = Null
  THEN UNCHANGED pageVars
  ELSE /\ history' = Append(history, effectiveDraft[1])
       /\ state' = effectiveDraft[1].next
       /\ draft' = Null
       /\ grade' = Null
       /\ gateIndex' = gateIndex

proceed_overwritesHistory ==
  IF effectiveDraft = Null
  THEN UNCHANGED pageVars
  ELSE /\ history' = << effectiveDraft[1] >>
       /\ state' = effectiveDraft[1].next
       /\ draft' = Null
       /\ grade' = Null
       /\ gateIndex' = gateIndex + 1

proceed_stateFromDraft ==
  IF effectiveDraft = Null
  THEN UNCHANGED pageVars
  ELSE /\ history' = Append(history, effectiveDraft[1])
       /\ state' = draft[1].next
       /\ draft' = Null
       /\ grade' = Null
       /\ gateIndex' = gateIndex + 1

proceed ==
  IF effectiveDraft = Null
  THEN UNCHANGED pageVars
  ELSE /\ history' = Append(history, effectiveDraft[1])
       /\ state' = effectiveDraft[1].next
       /\ draft' = Null
       /\ grade' = Null
       /\ gateIndex' = gateIndex + 1

reset ==
  /\ state' = initialState
  /\ gateIndex' = 0
  /\ draft' = Null
  /\ grade' = Null
  /\ history' = << >>

setGrade_appliedToDraft(g) ==
  /\ grade' = Some(g)
  /\ draft' = Some([draft[1] EXCEPT
                      !.next = applyPresentationGrade(draft[1].next, g, draft[1].feasibility).next])
  /\ UNCHANGED <<state, gateIndex, history>>

setGrade_firstGradeSticks(g) ==
  /\ grade' = (IF grade = Null THEN Some(g) ELSE grade)
  /\ UNCHANGED <<state, gateIndex, draft, history>>

\* onChange of the grade <select>
setGrade(g) ==
  /\ grade' = Some(g)
  /\ UNCHANGED <<state, gateIndex, draft, history>>

\* onClick of "Cancel selection"
cancelSelection ==
  /\ draft' = Null
  /\ grade' = Null
  /\ UNCHANGED <<state, gateIndex, history>>

\* what the rendered page offers
gatePanelShown == ~isFinal

selectButtonEnabled_withDraftPending == gatePanelShown

selectButtonEnabled == gatePanelShown /\ draft = Null

impactPanelShown == gatePanelShown /\ effectiveDraft # Null

proceedButtonEnabled_withoutGrade == impactPanelShown

proceedButtonEnabled_notAtLastGate ==
  impactPanelShown /\ grade # Null /\ gateIndex < Len(gates) - 1

proceedButtonEnabled == impactPanelShown /\ grade # Null

\* lastEvent records the last user event and whether its handler ran
Event(op, done) == [op |-> op, done |-> done]

Rejected(op) == UNCHANGED pageVars /\ lastEvent' = Event(op, FALSE)

ClickSelect ==
  /\ IF selectButtonEnabled
     THEN \E o \in optionsOf(currentGate) :
            /\ selectOption(currentGate, o)
            /\ lastEvent' = Event("select", TRUE)
     ELSE Rejected("select")
  /\ UNCHANGED <<probe, result>>

ChooseGrade ==
  /\ IF impactPanelShown
     THEN \E g \in GradeChoices : setGrade(g) /\ lastEvent' = Event("grade", TRUE)
     ELSE Rejected("grade")
  /\ UNCHANGED <<probe, result>>

ClickProceed ==
  /\ IF proceedButtonEnabled
     THEN proceed /\ lastEvent' = Event("proceed", TRUE)
     ELSE Rejected("proceed")
  /\ UNCHANGED <<probe, result>>

ClickCancel ==
  /\ IF impactPanelShown
     THEN cancelSelection /\ lastEvent' = Event("cancel", TRUE)
     ELSE Rejected("cancel")
  /\ UNCHANGED <<probe, result>>

ClickRestart ==
  /\ reset
  /\ lastEvent' = Event("reset", TRUE)
  /\ UNCHANGED <<probe, result>>

Init ==
  /\ state = initialState
  /\ gateIndex = 0
  /\ draft = Null
  /\ history = << >>
  /\ grade = Null
  /\ lastEvent = Event("mount", TRUE)
  /\ probe = Null
  /\ result = Null

Next == ClickSelect \/ ChooseGrade \/ ClickProceed \/ ClickCancel \/ ClickRestart

Spec == Init /\ [][Next]_vars

\* A run without Restart in which the participant does not give up: an option
\* button, the grade select and the Proceed button that stay usable are
\* eventually used.
LiveNext == ClickSelect \/ ChooseGrade \/ ClickProceed \/ ClickCancel

Fairness ==
  /\ WF_vars(ClickSelect /\ lastEvent'.done)
  /\ WF_vars(ChooseGrade /\ lastEvent'.done)
  /\ WF_vars(ClickProceed /\ lastEvent'.done)

LiveSpec == Init /\ [][LiveNext]_vars /\ Fairness

\* ---------------------------------------------------------------- pure functions on in-domain states
\* In FnSpec the engine's pure functions are applied to in-domain states drawn
\* from a grid around the thresholds of the code: probe is the input state,
\* result the outcome of the function applied to it.
InDomain(s) ==
  /\ 70 * ShareUnit <= s.share /\ s.share <= 130 * ShareUnit
  /\ 0 <= s.synergy /\ s.synergy <= s.synergyCeiling * SynUnit
  /\ 2 * AttrUnit <= s.attrition /\ s.attrition <= 12 * AttrUnit
  /\ 0 <= s.cred /\ s.cred <= 100
  /\ 0 <= s.risk /\ s.risk <= 100
  /\ 0 <= s.capacity /\ s.capacity <= 100
  /\ 60 <= s.synergyCeiling /\ s.synergyCeiling <= 100

ProbeStates ==
  { [share |-> sh * ShareUnit, synergy |-> sy, attrition |-> at, cred |-> cr, risk |-> ri,
     capacity |-> ca, synergyCeiling |-> ce, flags |-> [f \in FlagNames |-> fl]] :
      sh \in {70, 100, 130}, sy \in {0, 35 * SynUnit, 60 * SynUnit},
      at \in {200, 500, 1200}, cr \in {0, 70, 100}, ri \in {60, 84, 85, 100},
      ca \in {0, 30, 31, 100}, ce \in {60, 100}, fl \in BOOLEAN }

\* feasibility values: the minimum 0.42, DG1-A's 0.525, the maximum 1.0
ProbeFeasibilities == {84000, 105000, 200000}

\* the state of the draft that DG1 option A makes from initialState
ScenarioStates == { applyDecision(initialState, gates[1], gates[1].options[1]).next }

FnInit ==
  /\ probe \in ProbeStates \cup ScenarioStates
  /\ result = Null
  /\ state = initialState
  /\ gateIndex = 0
  /\ draft = Null
  /\ history = << >>
  /\ grade = Null
  /\ lastEvent = Event("mount", TRUE)

FnScore ==
  /\ result = Null
  /\ result' = Some([fn |-> "computeRobustnessIndex", index |-> computeRobustnessIndex(probe)])
  /\ UNCHANGED <<pageVars, lastEvent, probe>>

FnGrade ==
  /\ result = Null
  /\ \E g \in AllGrades \cup InvalidGrades, f \in ProbeFeasibilities :
       result' = Some([fn |-> "applyPresentationGrade", grade |-> g, feasibility |-> f,
                       out |-> applyPresentationGrade(probe, g, f)])
  /\ UNCHANGED <<pageVars, lastEvent, probe>>

\* the three steps of the stress engine, and the six orders they can be put in
StressSteps == {"sharePenalty", "credHit", "synergyErosion"}

StressOrders ==
  { o \in StressSteps \X StressSteps \X StressSteps : {o[1], o[2], o[3]} = StressSteps }

ApplyStressStep(step, s) ==
  IF step = "sharePenalty" THEN StressEngine(s)
  ELSE IF step = "credHit" THEN CredHit(s)
  ELSE SynergyErosion(s)

FnStress ==
  /\ result = Null
  /\ \E order \in StressOrders :
       result' = Some([fn |-> "stressSteps", order |-> order,
                       out |-> ApplyStressStep(order[3],
                                 ApplyStressStep(order[2], ApplyStressStep(order[1], probe)))])
  /\ UNCHANGED <<pageVars, lastEvent, probe>>

FnNext == FnScore \/ FnGrade \/ FnStress

FnSpec == FnInit /\ [][FnNext]_vars

\* In FeasSpec computeFeasibility and the feasibility selectOption stores in a
\* draft are computed for every capacity in [0,100] and every attrition in
\* [2,12] in AttrSteps equal steps: probe is the (attrition, capacity) pair, and
\* the draft is made from initialState with that pair.
FeasProbes ==
  { [attrition |-> 2 * AttrUnit + (k * 10 * AttrUnit) \div AttrSteps, capacity |-> c] :
      k \in 0..AttrSteps, c \in 0..100 }

FeasInit ==
  /\ probe \in FeasProbes
  /\ result = Null
  /\ state = initialState
  /\ gateIndex = 0
  /\ draft = Null
  /\ history = << >>
  /\ grade = Null
  /\ lastEvent = Event("mount", TRUE)

FnFeasibility ==
  /\ result = Null
  /\ result' = Some([fn |-> "computeFeasibility",
                     feasibility |-> computeFeasibility(probe.attrition, probe.capacity)])
  /\ UNCHANGED <<pageVars, lastEvent, probe>>

FnDraft ==
  /\ result = Null
  /\ \E i \in 1..Len(gates) : \E o \in optionsOf(gates[i]) :
       result' = Some([fn |-> "selectOption", gate |-> gates[i].id, option |-> o.id,
                       feasibility |->
                         draftEntry([initialState EXCEPT !.attrition = probe.attrition,
                                                         !.capacity = probe.capacity],
                                    gates[i], o).feasibility])
  /\ UNCHANGED <<pageVars, lastEvent, probe>>

FeasNext == FnFeasibility \/ FnDraft

FeasSpec == FeasInit /\ [][FeasNext]_vars

\* In ApplySpec applyDecision is applied to in-domain prior states on a grid
\* that reaches every clamp (share, attrition, cred, risk and capacity at both
\* ends, synergy at 0, at the ceiling and above every DG4 ceiling), with every
\* gate and option of the catalog.
ApplyStates ==
  { s \in { [share |-> sh * ShareUnit, synergy |-> sy * SynUnit, attrition |-> at,
             cred |-> cr, risk |-> ri, capacity |-> ca, synergyCeiling |-> ce,
             flags |-> [f \in FlagNames |-> fl]] :
              sh \in {70, 100, 130}, sy \in {0, 60, 100}, at \in {200, 900, 1200},
              cr \in {0, 50, 100}, ri \in {0, 70, 86, 100}, ca \in {0, 34, 100},
              ce \in {60, 100}, fl \in BOOLEAN } : InDomain(s) }

ApplyInit ==
  /\ probe \in ApplyStates
  /\ result = Null
  /\ state = initialState
  /\ gateIndex = 0
  /\ draft = Null
  /\ history = << >>
  /\ grade = Null
  /\ lastEvent = Event("mount", TRUE)

FnApply ==
  /\ result = Null
  /\ \E i \in 1..Len(gates) : \E o \in optionsOf(gates[i]) :
       result' = Some([fn |-> "applyDecision", gate |-> gates[i].id, option |-> o.id,
                       pre |-> beforeFinalClamp(probe, gates[i], o),
                       out |-> applyDecision(probe, gates[i], o)])
  /\ UNCHANGED <<pageVars, lastEvent, probe>>

ApplySpec == ApplyInit /\ [][FnApply]_vars

\* In RegradeSpec the page stands at its last gate after four commits of any
\* options, each graded GradeOrder[1]; an option is selected, any of the six
\* grades is chosen any number of times, and the draft is committed. result
\* logs the last change of the grade <select>: the value it had and the value
\* chosen.
RECURSIVE CommittedRuns(_)
CommittedRuns(k) ==
  IF k = 0 THEN { << >> }
  ELSE { Append(h, gradedEntry(draftEntry(IF Len(h) = 0 THEN initialState ELSE h[Len(h)].next,
                                          gates[k], o),
                               GradeOrder[1])) :
           h \in CommittedRuns(k - 1), o \in optionsOf(gates[k]) }

RegradeInit ==
  /\ history \in CommittedRuns(NumGates - 1)
  /\ state = history[Len(history)].next
  /\ gateIndex = NumGates - 1
  /\ draft = Null
  /\ grade = Null
  /\ lastEvent = Event("proceed", TRUE)
  /\ probe = Null
  /\ result = Null

RegradeSelect ==
  /\ selectButtonEnabled
  /\ \E o \in optionsOf(currentGate) : selectOption(currentGate, o)
  /\ lastEvent' = Event("select", TRUE)
  /\ result' = Null
  /\ UNCHANGED probe

Regrade ==
  /\ impactPanelShown
  /\ \E g \in AllGrades :
       /\ setGrade(g)
       /\ result' = Some([fn |-> "setGrade", from |-> grade, to |-> g])
  /\ lastEvent' = Event("grade", TRUE)
  /\ UNCHANGED probe

RegradeCommit ==
  /\ proceedButtonEnabled
  /\ proceed
  /\ lastEvent' = Event("proceed", TRUE)
  /\ UNCHANGED <<probe, result>>

RegradeNext == RegradeSelect \/ Regrade \/ RegradeCommit

RegradeSpec == RegradeInit /\ [][RegradeNext]_vars

\* In ScoreSpec computeRobustnessIndex is applied to in-domain states on a grid
\* that puts each of its six inputs on, just beside and between the thresholds
\* of the step tables, the penalties and the caps.
ScoreStates ==
  { [share |-> sh, synergy |-> sy, attrition |-> at, cred |-> cr, risk |-> ri,
     capacity |-> ca, synergyCeiling |-> 100, flags |-> [f \in FlagNames |-> FALSE]] :
      sh \in {75000, 89999, 90000, 100000, 110000, 120000, 128000},
      sy \in {10 * SynUnit, 15 * SynUnit, 20 * SynUnit, 25 * SynUnit, 30 * SynUnit,
              35 * SynUnit - 1, 35 * SynUnit, 40 * SynUnit},
      at \in {250, 251, 300, 350, 500, 700, 900, 1000},
      cr \in {30, 69, 80}, ri \in {50, 61, 80, 84, 85, 90},
      ca \in {25, 30, 31, 35, 40, 54, 75} }

ScoreInit ==
  /\ probe \in ScoreStates
  /\ result = Null
  /\ state = initialState
  /\ gateIndex = 0
  /\ draft = Null
  /\ history = << >>
  /\ grade = Null
  /\ lastEvent = Event("mount", TRUE)

ScoreSpec == ScoreInit /\ [][FnScore]_vars

\* ---------------------------------------------------------------- properties
IsPrefix(a, b) == Len(a) <= Len(b) /\ \A i \in 1..Len(a) : b[i] = a[i]

\* every entry the page holds: the committed ones, the draft, the graded draft
heldEntries ==
  { history[i] : i \in 1..Len(history) }
  \cup (IF draft = Null THEN {} ELSE {draft[1], effectiveDraft[1]})

gateById(id) == CHOOSE g \in { gates[i] : i \in 1..Len(gates) } : g.id = id

optionById(g, oid) == CHOOSE o \in optionsOf(g) : o.id = oid

\* C1: domain closure. In every reachable configuration the current state, and
\* the prev and next state of the draft, of the graded draft and of every
\* history entry, have share in [70,130], synergy in [0, synergyCeiling],
\* attrition in [2,12], cred, risk and capacity in [0,100] and synergyCeiling
\* in [60,100].
C1_DomainClosure ==
  /\ InDomain(state)
  /\ \A e \in heldEntries : InDomain(e.prev) /\ InDomain(e.next)

\* a finished run whose attrition sits on the lower clamp after five graded commits
C1_Witness ==
  /\ gateIndex = NumGates
  /\ state.attrition = 2 * AttrUnit
  /\ \A i \in 1..Len(history) : history[i].grade # Null

\* C2: a commit without a preceding grade is rejected. Every history entry carries
\* a grade in 1..6, and a commit attempt made while a draft exists and no grade
\* is chosen does not run the handler and leaves history, state and gateIndex
\* unchanged.
C2_CommitNeedsGrade ==
  /\ [](\A i \in 1..Len(history) :
          history[i].grade # Null /\ history[i].grade[1] \in AllGrades)
  /\ [][(draft # Null /\ grade = Null /\ lastEvent'.op = "proceed")
          => (lastEvent'.done = FALSE /\ UNCHANGED <<history, state, gateIndex>>)]_vars

\* a commit attempt with a pending ungraded draft was made and rejected
C2_Witness ==
  /\ draft # Null
  /\ grade = Null
  /\ lastEvent = Event("proceed", FALSE)

\* C3: terminal state. gateIndex never exceeds the number of gates, and once
\* gateIndex equals it (history holds one entry per gate) every attempt to
\* select, grade, commit or cancel is rejected and leaves state, history,
\* gateIndex, draft and grade unchanged.
C3_Terminal ==
  /\ [](gateIndex <= NumGates)
  /\ [](gateIndex = NumGates => Len(history) = NumGates /\ draft = Null)
  /\ [][(gateIndex = NumGates /\ lastEvent'.op \in {"select", "grade", "proceed", "cancel"})
          => (lastEvent'.done = FALSE /\ UNCHANGED pageVars)]_vars

\* a selection was attempted after the fifth commit and rejected
C3_Witness ==
  /\ gateIndex = NumGates
  /\ Len(history) = NumGates
  /\ lastEvent = Event("select", FALSE)

\* C4: transitions are applied strictly in stage order, one option per stage:
\* history.length = gateIndex, the k-th entry is for the k-th gate of the
\* catalog, its option is one of that gate's options, and no gate appears twice.
C4_StageOrder ==
  /\ Len(history) = gateIndex
  /\ \A k \in 1..Len(history) :
       /\ k <= Len(gates)
       /\ history[k].gate = gates[k].id
       /\ history[k].choice.gate = gates[k].id
       /\ history[k].choice.option \in { o.id : o \in optionsOf(gates[k]) }
  /\ \A j, k \in 1..Len(history) : history[j].gate = history[k].gate => j = k

\* all five gates committed, with different options along the way
C4_Witness ==
  /\ Len(history) = NumGates
  /\ history[1].choice.option = "A"
  /\ history[2].choice.option = "D"
  /\ history[5].choice.option = "B"
  /\ lastEvent = Event("proceed", TRUE)

\* C5 as stated: after any operation, reset included, every committed entry is
\* still present at the same position (history only ever grows at its end).
C5_AppendOnlyAlways == [][IsPrefix(history, history')]_vars

\* C5, amended: within a run history is append-only. Every step other than a
\* reset keeps every committed entry at its position with identical contents
\* and extends history by at most one entry, and only a commit extends it; a
\* reset empties history and starts a new run.
C5_AppendOnlyWithinRun ==
  [][/\ lastEvent'.op # "reset" =>
          /\ IsPrefix(history, history')
          /\ Len(history') <= Len(history) + 1
          /\ (history' # history => lastEvent' = Event("proceed", TRUE))
     /\ lastEvent'.op = "reset" => history' = << >>]_vars

\* three entries are committed (two of them survived a later commit) and a
\* draft made afterwards has been cancelled
C5_Witness ==
  /\ Len(history) = 3
  /\ lastEvent = Event("cancel", TRUE)

\* C6: an uncommitted draft is discardable with zero residual effect. Selecting,
\* grading and cancelling leave state, history and gateIndex unchanged; after a
\* cancel no draft and no grade is pending and the state is the snapshot taken
\* at the selection; state, history and gateIndex change only by a commit (or by
\* restarting the run).
C6_DraftDiscardable ==
  [][/\ lastEvent'.op \in {"select", "grade", "cancel"} => UNCHANGED <<state, history, gateIndex>>
     /\ lastEvent' = Event("cancel", TRUE) =>
          /\ draft' = Null
          /\ grade' = Null
          /\ draft # Null
          /\ state' = draft[1].prev
     /\ <<state, history, gateIndex>>' # <<state, history, gateIndex>> =>
          lastEvent'.op \in {"proceed", "reset"}]_vars

\* a draft made on top of a committed state has been cancelled
C6_Witness ==
  /\ lastEvent = Event("cancel", TRUE)
  /\ draft = Null
  /\ grade = Null
  /\ Len(history) = 1
  /\ state = history[1].next

\* C7: grading touches only share, synergy and attrition: for every in-domain
\* state, grade in 1..6 and feasibility, the state applyPresentationGrade
\* returns has the cred, risk, capacity, synergyCeiling and flags of its input.
C7_GradeFrame ==
  (result # Null /\ result[1].fn = "applyPresentationGrade") =>
    LET out == result[1].out.next
    IN  /\ out.cred = probe.cred
        /\ out.risk = probe.risk
        /\ out.capacity = probe.capacity
        /\ out.synergyCeiling = probe.synergyCeiling
        /\ out.flags = probe.flags

\* a grade was applied and changed share, synergy and attrition of a state whose
\* flags are set
C7_Witness ==
  /\ result # Null
  /\ result[1].fn = "applyPresentationGrade"
  /\ result[1].grade = 6
  /\ result[1].out.next.share # probe.share
  /\ result[1].out.next.synergy # probe.synergy
  /\ result[1].out.next.attrition # probe.attrition
  /\ probe.flags["itDebt"]

\* C8: synergyCeiling changes only through the options of DG4. For every entry
\* held (committed, draft or graded draft): at DG1, DG2, DG3 and DG5 the
\* resulting ceiling equals the prior one; at DG4 it is clamp(60, dg4Ceiling, 100)
\* of the chosen option; and the graded draft has the ceiling of the draft.
C8_CeilingOnlyAtDG4 ==
  /\ \A e \in heldEntries :
       /\ e.gate # "DG4" => e.next.synergyCeiling = e.prev.synergyCeiling
       /\ e.gate = "DG4" =>
            e.next.synergyCeiling =
              clamp(60, optionById(gateById("DG4"), e.choice.option).dg4Ceiling[1], 100)
  /\ draft # Null => effectiveDraft[1].next.synergyCeiling = draft[1].next.synergyCeiling
  /\ state.synergyCeiling # initialState.synergyCeiling => gateIndex >= 4

\* the ceiling lowered to 80 at DG4 is still 80 after the graded DG5 commit
C8_Witness ==
  /\ gateIndex = NumGates
  /\ state.synergyCeiling = 80
  /\ history[4].prev.synergyCeiling = 100
  /\ history[5].grade # Null

\* the entry that committing the k-th (gate, option, grade) triple of history
\* produces from the state the replay of the first k - 1 triples ends in
ReplayEntry(k) ==
  With(IF k = 1 THEN initialState ELSE history[k - 1].next, LAMBDA s :
  With(gates[k], LAMBDA g :
    gradedEntry(draftEntry(s, g, optionById(g, history[k].choice.option)),
                history[k].grade[1])))

\* C9: determinism. After every commit the committed history and state are
\* those obtained by replaying the committed (gate, option, grade) triples from
\* initialState (entry k is the replay of triple k from the replayed entry
\* k - 1), whatever was selected, graded, cancelled or restarted in between; so
\* two runs committing the same triples have the same entries, the same states
\* after every commit and the same robustness index at the end.
C9_Determinism ==
  /\ state = (IF Len(history) = 0 THEN initialState ELSE history[Len(history)].next)
  /\ lastEvent = Event("proceed", TRUE) =>
       /\ \A k \in 1..Len(history) :
            /\ history[k].choice.gate = gates[k].id
            /\ history[k] = ReplayEntry(k)
       /\ isFinal => computeRobustnessIndex(state)
                       = computeRobustnessIndex(ReplayEntry(Len(history)).next)

\* a run just finished by its fifth commit, whose index is computed
C9_Witness ==
  /\ isFinal
  /\ lastEvent = Event("proceed", TRUE)
  /\ Len(history) = NumGates
  /\ history[3].choice.option = "C"
  /\ history[5].choice.option = "A"
  /\ computeRobustnessIndex(state) \in 0..100

\* C10: hard caps of computeRobustnessIndex. For every in-domain state with
\* risk >= 85 the index is <= 75, with capacity <= 30 it is <= 78, with both it
\* is <= 65.
C10_HardCaps ==
  (result # Null /\ result[1].fn = "computeRobustnessIndex") =>
    /\ probe.risk >= 85 => result[1].index <= 75
    /\ probe.capacity <= 30 => result[1].index <= 78
    /\ (probe.risk >= 85 /\ probe.capacity <= 30) => result[1].index <= 65

\* a state whose uncapped score (81.75) is above the capacity cap and is cut to 78
C10_Witness ==
  /\ result # Null
  /\ result[1].fn = "computeRobustnessIndex"
  /\ probe.capacity = 30
  /\ probe.risk < 85
  /\ rawScore(probe) > 7800
  /\ result[1].index = 78

\* C11: for every in-domain state computeRobustnessIndex returns an integer in
\* [0,100], and the result depends only on share, synergy, attrition, cred,
\* risk and capacity: the same state with any other flags and any other
\* synergyCeiling (at or above its synergy) has the same index.
C11_IndexRangeAndFrame ==
  (result # Null /\ result[1].fn = "computeRobustnessIndex") =>
    /\ InDomain(probe)
    /\ result[1].index \in 0..100
    /\ \A fl \in BOOLEAN, f \in FlagNames, ce \in {60, 77, 100} :
         computeRobustnessIndex([probe EXCEPT !.flags = [probe.flags EXCEPT ![f] = fl],
                                              !.synergyCeiling = ce])
           = result[1].index

\* a state with every flag set and the lowest ceiling whose score before the
\* clamp is negative and whose index is 0
C11_Witness ==
  /\ result # Null
  /\ result[1].fn = "computeRobustnessIndex"
  /\ probe.flags["itDebt"]
  /\ probe.synergyCeiling = 60
  /\ rawScore(probe) < 0
  /\ result[1].index = 0

\* the step tables of the reference: the score of the first bound the value
\* reaches (ge: value >= bound, otherwise value <= bound), else 30
RefStep(v, bounds, ge) ==
  LET scores == << 100, 90, 75, 60, 45 >>
      hit == { i \in 1..5 : IF ge THEN v >= bounds[i] ELSE v <= bounds[i] }
  IN  IF hit = {} THEN 30 ELSE scores[CHOOSE i \in hit : \A j \in hit : i <= j]

\* the reference formula in hundredths: the weighted sub-scores minus the four
\* penalties, under the three caps, clamped to [0,100] and rounded
RefIndex(s) ==
  LET pos(x) == IF x > 0 THEN x ELSE 0
      base == 45 * RefStep(s.share, << 128000, 120000, 110000, 100000, 90000 >>, TRUE)
              + 35 * RefStep(s.synergy \div (SynUnit \div 1000),
                             << 35000, 30000, 25000, 20000, 15000 >>, TRUE)
              + 20 * RefStep(s.attrition, << 250, 350, 500, 700, 900 >>, FALSE)
      overload == IF s.risk >= 85 /\ s.capacity <= 35 THEN 1000
                  ELSE IF s.risk >= 80 /\ s.capacity <= 40 THEN 600 ELSE 0
      score == base - 35 * pos(70 - s.cred)
                    - (55 * pos(s.risk - 60) + 65 * pos(s.risk - 80))
                    - (45 * pos(55 - s.capacity) + 70 * pos(40 - s.capacity))
                    - overload
      cap == IF s.risk >= 85 /\ s.capacity <= 30 THEN 6500
             ELSE IF s.risk >= 85 THEN 7500
             ELSE IF s.capacity <= 30 THEN 7800
             ELSE 10000
      capped == IF score < cap THEN score ELSE cap
      clamped == IF capped < 0 THEN 0 ELSE IF capped > 10000 THEN 10000 ELSE capped
  IN  (clamped + 50) \div 100

HighRobustness(s) ==
  /\ s.share = 110 * ShareUnit /\ s.synergy = 40 * SynUnit /\ s.attrition = 3 * AttrUnit
  /\ s.cred = 80 /\ s.risk = 50 /\ s.capacity = 75

SystemicCollapse(s) ==
  /\ s.share = 75 * ShareUnit /\ s.synergy = 10 * SynUnit /\ s.attrition = 10 * AttrUnit
  /\ s.cred = 30 /\ s.risk = 90 /\ s.capacity = 25

\* C12: computeRobustnessIndex equals the reference formula
\* round(clamp(0, caps(0.45 scoreShare + 0.35 scoreSynergy + 0.20 scoreAttrition
\* - credPenalty - riskPenalty - capPenalty - overloadPenalty), 100)) with the
\* step tables of the specification; it is 87 for share 110, synergy 40,
\* attrition 3, cred 80, risk 50, capacity 75 and 0 for share 75, synergy 10,
\* attrition 10, cred 30, risk 90, capacity 25.
C12_ReferenceFormula ==
  (result # Null /\ result[1].fn = "computeRobustnessIndex") =>
    /\ result[1].index = RefIndex(probe)
    /\ HighRobustness(probe) => result[1].index = 87
    /\ SystemicCollapse(probe) => result[1].index = 0

\* the high-robustness scenario has been scored
C12_Witness ==
  /\ result # Null
  /\ result[1].fn = "computeRobustnessIndex"
  /\ HighRobustness(probe)
  /\ result[1].index = 87

\* the feasibility of the specification on the domain, in 1/200000: on
\* attrition in [2,12] the first factor 1 - attrition/20 is below 1 and is
\* floored at 0.6 from attrition 8 on; the second is capacity/100 floored at 0.7
RefFeasibility(a, c) ==
  (IF a >= 8 * AttrUnit THEN 1200 ELSE 2000 - a) * (IF c <= 70 THEN 70 ELSE c)

\* C13: feasibility bound. For every attrition in [2,12] and capacity in
\* [0,100], computeFeasibility(attrition, capacity) is
\* clamp(0.6, 1 - attrition/20, 1.0) * clamp(0.7, capacity/100, 1.0) and lies in
\* [0.42, 1.0]; the feasibility stored in a draft is that of the attrition and
\* capacity updated by the option's deltas, and lies in [0.42, 1.0].
C13_FeasibilityBound ==
  result # Null =>
    /\ result[1].fn \in {"computeFeasibility", "selectOption"}
    /\ (42 * FeasUnit) \div 100 <= result[1].feasibility
    /\ result[1].feasibility <= FeasUnit
    /\ result[1].fn = "computeFeasibility" =>
         result[1].feasibility = RefFeasibility(probe.attrition, probe.capacity)
    /\ result[1].fn = "selectOption" =>
         LET o == optionById(gateById(result[1].gate), result[1].option)
             a == probe.attrition + o.dAttrition
             c == probe.capacity + o.dCapacity
         IN  result[1].feasibility =
               RefFeasibility(IF a < 2 * AttrUnit THEN 2 * AttrUnit
                              ELSE IF a > 12 * AttrUnit THEN 12 * AttrUnit ELSE a,
                              IF c < 0 THEN 0 ELSE IF c > 100 THEN 100 ELSE c)

\* a draft made at the worst attrition and capacity stores the minimum 0.42
C13_Witness ==
  /\ result # Null
  /\ result[1].fn = "selectOption"
  /\ probe.attrition = 12 * AttrUnit
  /\ probe.capacity = 0
  /\ result[1].feasibility = (42 * FeasUnit) \div 100

\* the option of the catalog an entry was made with
entryOption(e) == optionById(gateById(e.gate), e.choice.option)

\* one of the delayed-effect rules applies to the entry's gate, option, prior
\* state and updated flags and synergy
DelayedRuleMatches(e) ==
  LET o == entryOption(e)
  IN  \/ e.next.flags["itDebt"] /\ e.gate \in {"DG4", "DG5"} /\ o.baseSynergy >= 10
      \/ e.next.flags["fragileTalent"] /\ e.gate = "DG4" /\ o.id \in {"A", "C"}
      \/ e.gate = "DG5" /\ o.id = "A" /\ e.prev.flags["dg4_fullDelivery"] /\ e.prev.risk > 70
      \/ e.gate = "DG5" /\ o.id = "A" /\ e.prev.flags["hardIntegration"]
      \/ e.gate = "DG5" /\ o.id \in {"B", "C"} /\ e.prev.flags["dg4_credReset"]
      \/ e.gate = "DG5" /\ o.id = "A" /\ e.prev.flags["dg4_stabilityFirst"]
      \/ e.gate = "DG5" /\ o.id = "B" /\ e.next.synergy < 35 * SynUnit

\* no delayed-effect rule matches, updated risk <= 75 and capacity >= 40
Calm(e) == ~DelayedRuleMatches(e) /\ e.next.risk <= 75 /\ e.next.capacity >= 40

\* 0.35 baseSynergy + 0.10 dCred - 0.12 dRisk - 0.18 dAttrition, in 1/1000
BaseShareDelta(o) ==
  350 * o.baseSynergy + 100 * o.dCred - 120 * o.dRisk - (18 * o.dAttrition) \div 10

\* cred, risk, capacity, attrition, feasibility and synergy of a calm transition
CalmFields(e) ==
  LET o == entryOption(e)
      lim(lo, v, hi) == IF v < lo THEN lo ELSE IF v > hi THEN hi ELSE v
  IN  /\ e.next.cred = lim(0, e.prev.cred + o.dCred, 100)
      /\ e.next.risk = lim(0, e.prev.risk + o.dRisk, 100)
      /\ e.next.capacity = lim(0, e.prev.capacity + o.dCapacity, 100)
      /\ e.next.attrition = lim(2 * AttrUnit, e.prev.attrition + o.dAttrition, 12 * AttrUnit)
      /\ e.feasibility = RefFeasibility(e.next.attrition, e.next.capacity)
      /\ e.next.synergy = e.prev.synergy + o.baseSynergy * e.feasibility * (SynUnit \div FeasUnit)

\* DG1 option A applied to initialState: cred 61, risk 55, capacity 60,
\* attrition 5.0, feasibility 0.525, synergy 8.4, share 104.82
Dg1AScenario(e) ==
  (e.gate = "DG1" /\ e.choice.option = "A") =>
    /\ e.prev = initialState
    /\ e.next.cred = 61 /\ e.next.risk = 55 /\ e.next.capacity = 60
    /\ e.next.attrition = 5 * AttrUnit
    /\ e.feasibility * 1000 = 525 * FeasUnit
    /\ e.next.synergy * 10 = 84 * SynUnit
    /\ e.next.share * 100 = 10482 * ShareUnit

\* C14 as stated: in every calm transition share = prior share + 0.35 baseSynergy
\* + 0.10 dCred - 0.12 dRisk - 0.18 dAttrition, at every gate.
C14_SingleTransitionAnyGate ==
  draft # Null =>
    /\ Calm(draft[1]) =>
         /\ CalmFields(draft[1])
         /\ draft[1].next.share = draft[1].prev.share + BaseShareDelta(entryOption(draft[1]))
    /\ Dg1AScenario(draft[1])

\* C14, amended: single transition. When no delayed-effect rule matches and the
\* updated risk is <= 75 and capacity >= 40, the draft applyDecision yields has
\* cred, risk, capacity and attrition = clamp(prior + delta), the feasibility of
\* the updated attrition and capacity, synergy = prior synergy + baseSynergy *
\* feasibility, and share = prior share + 0.35 baseSynergy + 0.10 dCred
\* - 0.12 dRisk - 0.18 dAttrition, plus at DG4 the option's guidance shock, with
\* no stress penalty; DG1 option A on initialState gives cred 61, risk 55,
\* capacity 60, attrition 5.0, feasibility 0.525, synergy 8.4, share 104.82.
C14_SingleTransition ==
  draft # Null =>
    /\ Calm(draft[1]) =>
         /\ CalmFields(draft[1])
         /\ draft[1].next.share =
              draft[1].prev.share + BaseShareDelta(entryOption(draft[1]))
              + (IF draft[1].gate = "DG4" THEN entryOption(draft[1]).dg4GuidanceShock[1] ELSE 0)
    /\ Dg1AScenario(draft[1])

\* a calm draft of DG4 option B, whose share carries the guidance shock of -4.0
C14_Witness ==
  /\ draft # Null
  /\ grade = Null
  /\ draft[1].gate = "DG4"
  /\ draft[1].choice.option = "B"
  /\ Calm(draft[1])
  /\ draft[1].next.share = draft[1].prev.share + BaseShareDelta(entryOption(draft[1])) - 4 * ShareUnit

\* the score of a grade in fifths: 1.0, 0.6, 0.2, -0.2, -0.6, -1.0
RefGradeScore(g) == << 5, 3, 1, -1, -3, -5 >>[g]

\* the state after grading s with score sc (in fifths) at feasibility f: share
\* + 2.2 score, synergy + 1.2 score feasibility, attrition - 0.25 score, each
\* clamped to its domain
RefGraded(s, sc, f) ==
  LET lim(lo, v, hi) == IF v < lo THEN lo ELSE IF v > hi THEN hi ELSE v
  IN  [s EXCEPT
        !.share = lim(70 * ShareUnit, s.share + (22 * ShareUnit * sc) \div 50, 130 * ShareUnit),
        !.synergy = lim(0, s.synergy + (12 * sc * f * (SynUnit \div FeasUnit)) \div 50,
                        s.synergyCeiling * SynUnit),
        !.attrition = lim(2 * AttrUnit, s.attrition - (25 * sc * AttrUnit) \div 500, 12 * AttrUnit)]

\* C15: grading. For grade g in 1..6 with score = clamp(-1, (3.5 - g)/2.5, 1),
\* applyPresentationGrade adds 2.2 score to share, 1.2 score feasibility to
\* synergy and -0.25 score to attrition, each clamped to its domain; the score
\* is 1 for grade 1, -1 for grade 6 and strictly decreasing in the grade;
\* grade 1 on the DG1-A draft (share 104.82, synergy 8.4, attrition 5.0,
\* feasibility 0.525) gives share 107.02, synergy 9.03, attrition 4.75.
C15_Grading ==
  /\ gradeToScore(1) = 5
  /\ gradeToScore(6) = -5
  /\ \A g \in 1..5 : gradeToScore(g) > gradeToScore(g + 1)
  /\ (result # Null /\ result[1].fn = "applyPresentationGrade" /\ result[1].grade \in AllGrades) =>
       /\ result[1].out.next =
            RefGraded(probe, RefGradeScore(result[1].grade), result[1].feasibility)
       /\ (probe \in ScenarioStates /\ result[1].grade = 1
             /\ result[1].feasibility * 1000 = 525 * FeasUnit) =>
            /\ probe.share * 100 = 10482 * ShareUnit
            /\ probe.synergy * 10 = 84 * SynUnit
            /\ probe.attrition = 5 * AttrUnit
            /\ result[1].out.next.share * 100 = 10702 * ShareUnit
            /\ result[1].out.next.synergy = 9 * SynUnit + (3 * SynUnit) \div 100
            /\ result[1].out.next.attrition * 100 = 475 * AttrUnit

\* the DG1-A draft has been graded 1 at its feasibility 0.525
C15_Witness ==
  /\ result # Null
  /\ result[1].fn = "applyPresentationGrade"
  /\ probe \in ScenarioStates
  /\ result[1].grade = 1
  /\ result[1].feasibility * 1000 = 525 * FeasUnit
  /\ result[1].out.next.share * 100 = 10702 * ShareUnit

\* C16: a grade outside 1..6 is rejected before any state change: the grading
\* step gives an error outcome and no adjusted state for it; it is not treated
\* as a valid grade.
C16_InvalidGradeRejected ==
  (result # Null /\ result[1].fn = "applyPresentationGrade" /\ result[1].grade \notin AllGrades) =>
    /\ "next" \notin DOMAIN result[1].out
    /\ \A g \in AllGrades :
         result[1].out # applyPresentationGrade(probe, g, result[1].feasibility)

\* C17: single draft at a time. While a draft is pending an attempt to apply
\* another option is rejected and leaves the draft, the grade, the current
\* state, history and gateIndex unchanged; a pending draft is always one draft
\* for the current gate, made from the current state.
C17_SingleDraft ==
  /\ [](draft # Null =>
          /\ Len(draft) = 1
          /\ ~isFinal
          /\ draft[1].gate = currentGate.id
          /\ draft[1].choice.gate = currentGate.id
          /\ draft[1].prev = state)
  /\ [][(draft # Null /\ lastEvent'.op = "select")
          => (lastEvent'.done = FALSE /\ UNCHANGED pageVars)]_vars

\* with a graded draft pending at the third gate, another selection was
\* attempted and rejected
C17_Witness ==
  /\ draft # Null
  /\ grade # Null
  /\ gateIndex = 2
  /\ lastEvent = Event("select", FALSE)

\* the run is over: five commits, gateIndex = 5, one entry per gate in order
Terminal ==
  /\ isFinal
  /\ gateIndex = 5
  /\ Len(history) = 5
  /\ \A k \in 1..5 : history[k].gate = gates[k].id

\* C18: termination. A run without reset in which selecting, grading and
\* committing are weakly fair and cancelling eventually stops reaches the
\* terminal state and stays there; it is reached after exactly five commits
\* (every commit adds one entry and one to gateIndex), with gateIndex = 5 and
\* history holding exactly one entry per gate.
C18_Termination ==
  /\ (<>[][lastEvent'.op # "cancel"]_vars) => <>[]Terminal
  /\ [](isFinal => Terminal)
  /\ [][lastEvent' = Event("proceed", TRUE) =>
          (Len(history') = Len(history) + 1 /\ gateIndex' = gateIndex + 1)]_vars

\* the terminal state, reached in a run in which a draft was cancelled on the
\* way and the last event was a rejected commit attempt
C18_Witness ==
  /\ Terminal
  /\ lastEvent = Event("proceed", FALSE)

\* C19: flags are sticky. Within a run a flag that is true in a committed state
\* is true in every later committed state and in the current state; a draft
\* keeps every flag its prior state has; DG2 option A, which sets fragileTalent
\* to false, is only ever applied where fragileTalent is already false; grading
\* a draft does not change its flags, and the current state has the flags of
\* the last commit whatever was selected, graded or cancelled since.
C19_FlagsSticky ==
  /\ \A j, k \in 1..Len(history) : \A f \in FlagNames :
       (j <= k /\ history[j].next.flags[f]) =>
         (history[k].next.flags[f] /\ state.flags[f])
  /\ \A e \in heldEntries : \A f \in FlagNames : e.prev.flags[f] => e.next.flags[f]
  /\ \A e \in heldEntries :
       (e.gate = "DG2" /\ e.choice.option = "A") =>
         (~e.prev.flags["fragileTalent"] /\ e.next.flags = e.prev.flags)
  /\ draft # Null => effectiveDraft[1].next.flags = draft[1].next.flags
  /\ state.flags = (IF Len(history) = 0 THEN initialState.flags
                    ELSE history[Len(history)].next.flags)

\* a finished run that set hardIntegration at DG1, applied DG2 option A, set
\* itDebt at DG3 and still has both flags
C19_Witness ==
  /\ Len(history) = NumGates
  /\ history[1].choice.option = "A"
  /\ history[2].choice.option = "A"
  /\ history[3].choice.option = "C"
  /\ state.flags["hardIntegration"]
  /\ state.flags["itDebt"]
  /\ ~state.flags["fragileTalent"]

\* v + d (d = 0 unless on) kept in [lo, hi]
StepIf(on, v, d, lo, hi) ==
  IF ~on THEN v ELSE IF v + d < lo THEN lo ELSE IF v + d > hi THEN hi ELSE v + d

\* the two DG5 option A rules, keyed on the prior state
FullDeliveryRule(e) == e.prev.flags["dg4_fullDelivery"] /\ e.prev.risk > 70

HardIntegrationRule(e) == e.prev.flags["hardIntegration"]

\* risk, capacity, attrition and cred of a DG5 option A entry, when the rule
\* of itDebt (risk + 6, capacity - 6) counts as applied iff withItDebt: the
\* option's own deltas, then the rules in order, each step clamped. cred is
\* given where no credibility hit of the stress engine follows (risk <= 85 or
\* capacity >= 35); with the hit it is lower.
Dg5AEffects(e, withItDebt) ==
  LET o == entryOption(e)
      debt == withItDebt /\ e.prev.flags["itDebt"]
      full == FullDeliveryRule(e)
      hard == HardIntegrationRule(e)
      stab == e.prev.flags["dg4_stabilityFirst"]
      risk == StepIf(hard, StepIf(full, StepIf(debt,
                StepIf(TRUE, e.prev.risk, o.dRisk, 0, 100), 6, 0, 100), 8, 0, 100), 5, 0, 100)
      capacity == StepIf(debt, StepIf(TRUE, e.prev.capacity, o.dCapacity, 0, 100), -6, 0, 100)
      attrition == StepIf(full, StepIf(TRUE, e.prev.attrition, o.dAttrition,
                                       2 * AttrUnit, 12 * AttrUnit),
                          (8 * AttrUnit) \div 10, 2 * AttrUnit, 12 * AttrUnit)
      cred == StepIf(stab, StepIf(hard, StepIf(full,
                StepIf(TRUE, e.prev.cred, o.dCred, 0, 100), -4, 0, 100), -2, 0, 100), -4, 0, 100)
  IN  /\ e.next.risk = risk
      /\ e.next.capacity = capacity
      /\ e.next.attrition = attrition
      /\ IF risk > 85 /\ capacity < 35 THEN e.next.cred < cred ELSE e.next.cred = cred

\* C20 as stated: at DG5 option A the prior state's flags and risk decide the
\* delayed effects, which come on top of the option's own deltas; when neither
\* rule holds and dg4_stabilityFirst is false no delayed effect is applied.
C20_Dg5ADelayedOnlyThese ==
  (draft # Null /\ draft[1].gate = "DG5" /\ draft[1].choice.option = "A") =>
    Dg5AEffects(draft[1], FALSE)

\* C20, amended: at DG5 with option A the delayed effects are keyed on the
\* prior committed state: if prior dg4_fullDelivery and prior risk > 70 then
\* risk += 8, cred -= 4, attrition += 0.8; if prior hardIntegration then
\* risk += 5, cred -= 2; with both, both (risk +13, cred -6, attrition +0.8),
\* each step clamped, on top of the option's own deltas and of the itDebt rule
\* (risk += 6, capacity -= 6 when itDebt is set, DG5 option A having
\* baseSynergy 10); when neither holds and dg4_stabilityFirst and itDebt are
\* false, no delayed effect is applied.
C20_Dg5ADelayed ==
  (draft # Null /\ draft[1].gate = "DG5" /\ draft[1].choice.option = "A") =>
    Dg5AEffects(draft[1], TRUE)

\* a DG5 option A draft on which both rules were applied: risk 13 and
\* attrition 0.8 above the option's own deltas
C20_Witness ==
  /\ draft # Null
  /\ draft[1].gate = "DG5"
  /\ draft[1].choice.option = "A"
  /\ FullDeliveryRule(draft[1])
  /\ HardIntegrationRule(draft[1])
  /\ ~draft[1].prev.flags["itDebt"]
  /\ draft[1].next.risk = draft[1].prev.risk + 4 + 13
  /\ draft[1].next.attrition = draft[1].prev.attrition + 60 + 80

\* how many of risk > 85, capacity < 30, attrition > 9 hold
SignalCount(risk, capacity, attrition) ==
  Cardinality({ i \in 1..3 : \/ i = 1 /\ risk > 85
                             \/ i = 2 /\ capacity < 30
                             \/ i = 3 /\ attrition > 9 * AttrUnit })

\* the overload signals of an entry counted on the values the immediate deltas
\* produce from its prior state
ImmediateSignals(e) ==
  LET o == entryOption(e)
  IN  SignalCount(StepIf(TRUE, e.prev.risk, o.dRisk, 0, 100),
                  StepIf(TRUE, e.prev.capacity, o.dCapacity, 0, 100),
                  StepIf(TRUE, e.prev.attrition, o.dAttrition, 2 * AttrUnit, 12 * AttrUnit))

\* the synergy of an ungraded entry: the synergy update, one leakage multiplier
\* chosen by the immediate signals, then the erosion of step 12 where the
\* resulting risk > 85 and capacity < 35
LeakedSynergy(e) ==
  LET o == entryOption(e)
      top == e.next.synergyCeiling * SynUnit
      raw == e.prev.synergy + o.baseSynergy * e.feasibility * (SynUnit \div FeasUnit)
      updated == IF raw > top THEN top ELSE raw
      n == ImmediateSignals(e)
      leaked == IF n = 2 THEN MulDiv(updated, 94, 100)
                ELSE IF n = 3 THEN MulDiv(updated, 90, 100)
                ELSE updated
  IN  IF e.next.risk > 85 /\ e.next.capacity < 35
      THEN MulDiv(leaked, 950 - 2 * (e.next.risk - 85), 1000)
      ELSE leaked

\* C21: synergy leakage. After the synergy update applyDecision counts the
\* overload signals risk > 85, capacity < 30, attrition > 9 on the values the
\* immediate deltas produce, before any delayed effect; with exactly 2 signals
\* synergy is multiplied by 0.94, with all 3 by 0.90, with 0 or 1 it is left
\* unchanged by this step; exactly one multiplier is applied.
C21_SynergyLeakage ==
  draft # Null => draft[1].next.synergy = LeakedSynergy(draft[1])

\* a draft with two signals on the immediate values (synergy times 0.94) whose
\* resulting values, after a delayed effect, show all three
C21_Witness ==
  /\ draft # Null
  /\ ImmediateSignals(draft[1]) = 2
  /\ SignalCount(draft[1].next.risk, draft[1].next.capacity, draft[1].next.attrition) = 3
  /\ draft[1].next.synergy < draft[1].prev.synergy
                             + entryOption(draft[1]).baseSynergy * draft[1].feasibility
                               * (SynUnit \div FeasUnit)

\* C22: the share penalty (step 10), the credibility hit (step 11) and the
\* synergy erosion (step 12) are independent of their order: applied to an
\* in-domain state in any of the six orders they give the state the order of
\* the code gives, and they leave risk, capacity, attrition, synergyCeiling and
\* flags as they were.
C22_StressOrderIndependent ==
  (result # Null /\ result[1].fn = "stressSteps") =>
    /\ InDomain(probe)
    /\ result[1].out = SynergyErosion(CredHit(StressEngine(probe)))
    /\ result[1].out.risk = probe.risk
    /\ result[1].out.capacity = probe.capacity
    /\ result[1].out.attrition = probe.attrition
    /\ result[1].out.synergyCeiling = probe.synergyCeiling
    /\ result[1].out.flags = probe.flags

\* the erosion first and the share penalty last, on an overstretched state in
\* which all three steps change their field
C22_Witness ==
  /\ result # Null
  /\ result[1].fn = "stressSteps"
  /\ result[1].order = << "synergyErosion", "credHit", "sharePenalty" >>
  /\ probe.risk > 85
  /\ probe.capacity < 35
  /\ result[1].out.share < probe.share
  /\ result[1].out.cred < probe.cred
  /\ result[1].out.synergy < probe.synergy

\* C23: the final clamp pass of applyDecision is purely defensive. For every
\* in-domain prior state and every gate and option of the catalog, right before
\* the final pass every field is inside its domain and synergy <=
\* synergyCeiling, so the pass changes no field.
C23_FinalClampDefensive ==
  (result # Null /\ result[1].fn = "applyDecision") =>
    /\ InDomain(probe)
    /\ InDomain(result[1].pre)
    /\ result[1].out.next = result[1].pre

\* DG4 option D applied to a state whose synergy (100) is above the new ceiling
\* (80) and whose share is at its lower end: both are in their domain before
\* the final pass
C23_Witness ==
  /\ result # Null
  /\ result[1].fn = "applyDecision"
  /\ result[1].gate = "DG4"
  /\ result[1].option = "D"
  /\ probe.synergy = 100 * SynUnit
  /\ probe.share = 70 * ShareUnit
  /\ result[1].pre.synergyCeiling = 80
  /\ result[1].pre.synergy = 80 * SynUnit
  /\ result[1].pre.share = 70 * ShareUnit

\* C24: the history is a chain. The first entry's prev is initialState, every
\* later entry's prev is the preceding entry's next, the current state is the
\* last entry's next (initialState while the history is empty), and a pending
\* draft's prev is the current state.
C24_HistoryChain ==
  /\ Len(history) > 0 => history[1].prev = initialState
  /\ \A k \in 2..Len(history) : history[k].prev = history[k - 1].next
  /\ state = (IF Len(history) = 0 THEN initialState ELSE history[Len(history)].next)
  /\ draft # Null => draft[1].prev = state

\* three graded commits that each changed the state, and a draft pending at the
\* fourth gate
C24_Witness ==
  /\ Len(history) = 3
  /\ draft # Null
  /\ draft[1].gate = "DG4"
  /\ \A k \in 1..3 : history[k].next # history[k].prev
  /\ history[1].next # draftEntry(initialState, gates[1],
                                  optionById(gates[1], history[1].choice.option)).next
  /\ draft[1].next # state

\* C25: in every committed entry each per-field delta (share, synergy,
\* attrition, cred, risk, capacity, synergyCeiling) is next.field - prev.field,
\* where next is the state after the grade adjustment.
C25_CommittedDeltas ==
  /\ [](\A k \in 1..Len(history) :
          With(history[k], LAMBDA e :
            /\ e.grade # Null
            /\ e.deltas.share = e.next.share - e.prev.share
            /\ e.deltas.synergy = e.next.synergy - e.prev.synergy
            /\ e.deltas.attrition = e.next.attrition - e.prev.attrition
            /\ e.deltas.cred = e.next.cred - e.prev.cred
            /\ e.deltas.risk = e.next.risk - e.prev.risk
            /\ e.deltas.capacity = e.next.capacity - e.prev.capacity
            /\ e.deltas.synergyCeiling = e.next.synergyCeiling - e.prev.synergyCeiling))
  /\ [][(lastEvent'.op = "proceed" /\ lastEvent'.done) =>
          /\ Len(history') = Len(history) + 1
          /\ history'[Len(history')].grade = grade
          /\ history'[Len(history')].prev = draft[1].prev
          /\ history'[Len(history')].next
               = applyPresentationGrade(draft[1].next, grade[1], draft[1].feasibility).next]_vars

\* a committed DG4 entry whose grade moved share, synergy and attrition away
\* from the draft's values and whose ceiling delta is not zero
C25_Witness ==
  /\ Len(history) >= 4
  /\ With(history[4], LAMBDA e :
     With(draftEntry(e.prev, gates[4], entryOption(e)), LAMBDA d :
       /\ e.deltas.share # d.deltas.share
       /\ e.deltas.synergy # d.deltas.synergy
       /\ e.deltas.attrition # d.deltas.attrition
       /\ e.deltas.synergyCeiling # 0
       /\ e.deltas.cred = d.deltas.cred))

\* the states held by the page: the current state, both states of every
\* committed entry, and the next state of the pending draft without and with
\* the chosen grade
heldStates ==
  {state}
    \cup { history[k].prev : k \in 1..Len(history) }
    \cup { history[k].next : k \in 1..Len(history) }
    \cup (IF draft = Null THEN {} ELSE {draft[1].prev, draft[1].next, effectiveDraft[1].next})

\* C27: with the built-in catalog the synergy ceiling never binds. In every
\* state reachable from initialState, draft or committed, synergy is strictly
\* below synergyCeiling, so no clamp of synergy to the ceiling has lowered a
\* computed value (a lowered value would equal the ceiling); the DG4 options
\* that reduce the ceiling to 80, 90 or 95 included.
C27_CeilingNeverBinds ==
  \A s \in heldStates : s.synergy < s.synergyCeiling * SynUnit

\* a graded DG4 draft that reduces the ceiling from 100 to 80 while synergy is
\* positive
C27_Witness ==
  /\ draft # Null
  /\ grade # Null
  /\ draft[1].gate = "DG4"
  /\ draft[1].prev.synergyCeiling = 100
  /\ effectiveDraft[1].next.synergyCeiling = 80
  /\ effectiveDraft[1].next.synergy > draft[1].next.synergy
  /\ draft[1].prev.synergy > 0

\* the draft that selectOption made of the pending option, before any grade
PreGradeDraft ==
  draftEntry(state, currentGate, optionById(currentGate, draft[1].choice.option))

\* C26: changing the grade before commit is not cumulative. Whatever grades
\* were chosen on one pending draft, the draft itself stays the pre-grade draft,
\* the effective draft is the last chosen grade applied to the pre-grade next
\* state with the draft's feasibility, and the committed entry and state are
\* those of the last chosen grade alone: share, synergy, attrition and the
\* narrative carry nothing of the earlier choices.
C26_RegradeNotCumulative ==
  /\ draft # Null => draft[1] = PreGradeDraft
  /\ (draft # Null /\ result # Null) =>
       /\ grade = Some(result[1].to)
       /\ effectiveDraft[1].next
            = applyPresentationGrade(PreGradeDraft.next, result[1].to,
                                     PreGradeDraft.feasibility).next
       /\ effectiveDraft[1].note
            = [text |-> PreGradeDraft.note.text,
               gradeText |-> Some(gradeText(result[1].to,
                                  gradeDeltas(result[1].to, PreGradeDraft.feasibility)))]
  /\ (isFinal /\ lastEvent = Event("proceed", TRUE)) =>
       With(history[NumGates], LAMBDA e :
       With(draftEntry(history[NumGates - 1].next, gates[NumGates], entryOption(e)), LAMBDA d :
         /\ result # Null
         /\ e = gradedEntry(d, result[1].to)
         /\ e.next = applyPresentationGrade(d.next, result[1].to, d.feasibility).next
         /\ state = e.next))

\* grade 1 was chosen, then grade 6, and the draft was committed: the entry is
\* graded 6, below the draft in share, and differs from grade 6 applied on top
\* of grade 1
C26_Witness ==
  /\ isFinal
  /\ lastEvent = Event("proceed", TRUE)
  /\ result # Null
  /\ result[1].from = Some(1)
  /\ result[1].to = 6
  /\ With(history[NumGates], LAMBDA e :
     With(draftEntry(e.prev, gates[NumGates], entryOption(e)), LAMBDA d :
       /\ e.grade = Some(6)
       /\ e.next.share < d.next.share
       /\ e.next # applyPresentationGrade(
                     applyPresentationGrade(d.next, 1, d.feasibility).next,
                     6, d.feasibility).next))

====
